---- MODULE Spec2Model ----
(***************************************************************************)
(* Model of src/main.py: the student-situation calculator                  *)
(* (compute_student_situation) and the run of main() that reads a          *)
(* worksheet, applies the calculator to every student record and writes    *)
(* the Situação and NAF columns back.                                      *)
(*                                                                         *)
(* Three specifications:                                                   *)
(*   Spec         one run of main() over a worksheet chosen by Init        *)
(*   SpecCompute  compute_student_situation applied to inputs drawn from   *)
(*                bounded sets                                             *)
(*   SpecRegrade  the same call, on the inputs used to compare the result  *)
(*                of one score triple with the results of the others       *)
(***************************************************************************)
EXTENDS Integers, Sequences, FiniteSets, TLC

VARIABLES
    \* ---- state of a run of main() ----
    pc,               \* position of main() in its body
    spreadsheet_id,   \* what the command-line argument designates
    a2,               \* value of the TOTAL_LECTURES_CELL as the API returns it
    cells,            \* the worksheet grid, rows HEAD_ROW_INDEX .. LastRow
    sheet0,           \* the grid as it was when the run started (history)
    total_lectures,   \* local of main()
    student_records,  \* local of main()
    situation_cell,   \* local of main()
    nafs_cell,        \* local of main()
    situation_col,    \* local of main(): list of Cell objects
    nafs_col,         \* local of main(): list of Cell objects
    i,                \* loop index of enumerate(student_records), 0-based
    errors,           \* messages passed to logger.error, in order
    exception,        \* the uncaught exception that ended the run, or "none"
    compute_calls,    \* number of calls of compute_student_situation (history)
    update_calls,     \* number of calls of worksheet.update_cells (history)
    \* ---- state of one evaluation of compute_student_situation ----
    cpc,              \* "input" before the call, "returned" after it
    abscences, p1, p2, p3, lectures,   \* the arguments
    situation, naf    \* the returned pair

mainVars == <<pc, spreadsheet_id, a2, cells, sheet0, total_lectures,
              student_records, situation_cell, nafs_cell, situation_col,
              nafs_col, i, errors, exception, compute_calls, update_calls>>
compVars == <<cpc, abscences, p1, p2, p3, lectures, situation, naf>>
vars == <<mainVars, compVars>>

----------------------------------------------------------------------------
(* Bounds of the model *)

MaxStudents == 2      \* data rows of the worksheet below the header row
MaxAbscences == 2     \* absences drawn for SpecCompute: 0 .. MaxAbscences
MaxLectures == 8      \* total lectures drawn for SpecCompute: 0 .. MaxLectures

(* Program constants *)

HEAD_ROW_INDEX == 3
MaxScore == 100       \* test scores are on the scale 0-100

----------------------------------------------------------------------------
(* class StudentSituation: the members are their labels *)

REPROVADO_POR_NOTA == "Reprovado por Nota"
REPROVADO_POR_FALTA == "Reprovado por Falta"
EXAME_FINAL == "Exame Final"
APROVADO == "Aprovado"
StudentSituation ==
    {REPROVADO_POR_NOTA, REPROVADO_POR_FALTA, EXAME_FINAL, APROVADO}

----------------------------------------------------------------------------
(* Arithmetic of compute_student_situation.                                *)
(* Python computes with IEEE doubles; the quotients are kept here as exact *)
(* fractions num/den with den > 0.  For integer scores in 0..100 the       *)
(* double results of (p1+p2+p3)/3/10, of the comparisons with 5 and 7 and  *)
(* of ceil(10 - average) coincide with the exact ones (the sum is a        *)
(* multiple of 30 exactly when the quotient is an integer, and then both   *)
(* divisions are exact), and total_lectures / 4 is exact in binary.        *)

Frac(n, d) == [num |-> n, den |-> d]
FracDiv(a, k) == Frac(a.num, a.den * k)                    \* a / k, k > 0
FracSub(a, b) == Frac(a.num * b.den - b.num * a.den, a.den * b.den)
FracLT(a, b) == a.num * b.den < b.num * a.den              \* a < b
FracLE(a, b) == a.num * b.den <= b.num * a.den             \* a <= b
FracInt(n) == Frac(n, 1)
\* (mutant) truncation instead of the ceiling: int(10 - average)
ceil_truncating(a) == a.num \div a.den
\* math.ceil: the least integer >= a
ceil(a) == -((-(a.num)) \div a.den)

\* (mutant) a missing pair of parentheses: (p1 + p2 + p3 / 3) / 10
Average_unparenthesised(s1, s2, s3) ==
    FracDiv(Frac(3 * s1 + 3 * s2 + s3, 3), 10)
\* average = (p1 + p2 + p3) / 3 / 10
Average(s1, s2, s3) == FracDiv(FracDiv(FracInt(s1 + s2 + s3), 3), 10)

\* (mutant) abscences >= (total_lectures / 4)
AbsenceCheck_inclusive(a, t) == FracLE(FracDiv(FracInt(t), 4), FracInt(a))
\* abscences > (total_lectures / 4)
AbsenceCheck(a, t) == FracLT(FracDiv(FracInt(t), 4), FracInt(a))

\* (mutant) the NAF computed before the branches, for every situation
compute_naf_always(a, s1, s2, s3, t) ==
    LET average == Average(s1, s2, s3)
        n == ceil(FracSub(FracInt(10), average)) IN
    IF AbsenceCheck(a, t)
    THEN <<REPROVADO_POR_FALTA, n>>
    ELSE IF FracLT(average, FracInt(5))
    THEN <<REPROVADO_POR_NOTA, n>>
    ELSE IF FracLE(FracInt(5), average) /\ FracLT(average, FracInt(7))
    THEN <<EXAME_FINAL, n>>
    ELSE <<APROVADO, n>>

\* (mutant) the score branches tried before the absence check
compute_scores_first(a, s1, s2, s3, t) ==
    LET average == Average(s1, s2, s3) IN
    IF FracLE(FracInt(7), average)
    THEN <<APROVADO, 0>>
    ELSE IF AbsenceCheck(a, t)
    THEN <<REPROVADO_POR_FALTA, 0>>
    ELSE IF FracLT(average, FracInt(5))
    THEN <<REPROVADO_POR_NOTA, 0>>
    ELSE <<EXAME_FINAL, ceil(FracSub(FracInt(10), average))>>

\* (mutant) the boundaries moved to the other side: average <= 5, average <= 7
compute_boundaries_moved(a, s1, s2, s3, t) ==
    LET average == Average(s1, s2, s3) IN
    IF AbsenceCheck(a, t)
    THEN <<REPROVADO_POR_FALTA, 0>>
    ELSE IF FracLE(average, FracInt(5))
    THEN <<REPROVADO_POR_NOTA, 0>>
    ELSE IF FracLT(FracInt(5), average) /\ FracLE(average, FracInt(7))
    THEN <<EXAME_FINAL, ceil(FracSub(FracInt(10), average))>>
    ELSE <<APROVADO, 0>>

compute_student_situation(a, s1, s2, s3, t) ==
    LET average == Average(s1, s2, s3) IN
    IF AbsenceCheck(a, t)
    THEN <<REPROVADO_POR_FALTA, 0>>
    ELSE IF FracLT(average, FracInt(5))
    THEN <<REPROVADO_POR_NOTA, 0>>
    ELSE IF FracLE(FracInt(5), average) /\ FracLT(average, FracInt(7))
    THEN <<EXAME_FINAL, ceil(FracSub(FracInt(10), average))>>
    ELSE <<APROVADO, 0>>

----------------------------------------------------------------------------
(* SpecCompute: one call of compute_student_situation *)

Scores == 0 .. MaxScore
\* p1 ranges over the whole scale, p2 and p3 over its ends and the scores
\* next to the boundaries of the grading table:
\* the sum p1 + p2 + p3 takes every value of 0 .. 3 * MaxScore
CoarseScores == {0, 40, 50, 70, MaxScore}

MainIdle ==
    /\ pc = "idle"
    /\ spreadsheet_id = "none"
    /\ a2 = [has |-> FALSE, chars |-> <<>>]
    /\ cells = <<>>
    /\ sheet0 = <<>>
    /\ total_lectures = 0
    /\ student_records = <<>>
    /\ situation_cell = [found |-> FALSE, row |-> 0, col |-> 0]
    /\ nafs_cell = [found |-> FALSE, row |-> 0, col |-> 0]
    /\ situation_col = <<>>
    /\ nafs_col = <<>>
    /\ i = 0
    /\ errors = <<>>
    /\ exception = "none"
    /\ compute_calls = 0
    /\ update_calls = 0

InitCompute ==
    /\ MainIdle
    /\ cpc = "input"
    /\ abscences \in 0 .. MaxAbscences
    /\ lectures \in 0 .. MaxLectures
    /\ p1 \in Scores
    /\ p2 \in CoarseScores
    /\ p3 \in CoarseScores
    /\ situation = "unset"
    /\ naf = 0

Call ==
    /\ cpc = "input"
    /\ LET r == compute_student_situation(abscences, p1, p2, p3, lectures) IN
        /\ situation' = r[1]
        /\ naf' = r[2]
    /\ cpc' = "returned"
    /\ UNCHANGED <<abscences, p1, p2, p3, lectures>>
    /\ UNCHANGED mainVars

NextCompute == Call

SpecCompute == InitCompute /\ [][NextCompute]_vars

(* SpecRegrade: the same call, for the comparison of a result with the     *)
(* results of other scores; the absences and the lectures are taken at the *)
(* ends of their ranges                                                    *)
InitRegrade ==
    /\ MainIdle
    /\ cpc = "input"
    /\ abscences \in {0, MaxAbscences}
    /\ lectures \in {0, MaxLectures}
    /\ p1 \in Scores
    /\ p2 \in {0, MaxScore}
    /\ p3 \in {0, 50, MaxScore}
    /\ situation = "unset"
    /\ naf = 0

SpecRegrade == InitRegrade /\ [][NextCompute]_vars

----------------------------------------------------------------------------
(* The worksheet *)

\* class ColumnKey
ColumnKey_ID == "Matricula"
ColumnKey_STUDENT == "Aluno"
ColumnKey_ABSCENCES == "Faltas"
ColumnKey_P1 == "P1"
ColumnKey_P2 == "P2"
ColumnKey_P3 == "P3"
ColumnKey_SITUATION == "Situação"
ColumnKey_NAF == "Nota para Aprovação Final"

\* A cell value is a number or a text; the empty cell is the empty text.
\* (A cell holding the digits of a number is read as that number: the
\* numericising of get_all_records is in the typing of the values.)
Num(n) == [kind |-> "num", num |-> n, text |-> ""]
Text(s) == [kind |-> "text", num |-> 0, text |-> s]
Empty == Text("")

NCols == 8
Cols == 1 .. NCols
LastRow == HEAD_ROW_INDEX + MaxStudents + 1
Rows == HEAD_ROW_INDEX .. LastRow

\* Header rows: for each column the field its data belong to and the text in
\* the header row
H(field, text) == [field |-> field, text |-> text]
K(key) == H(key, key)
Layouts ==
    { \* the expected header
      << K(ColumnKey_ID), K(ColumnKey_STUDENT), K(ColumnKey_ABSCENCES),
         K(ColumnKey_P1), K(ColumnKey_P2), K(ColumnKey_P3),
         K(ColumnKey_SITUATION), K(ColumnKey_NAF) >>,
      \* the output columns elsewhere
      << K(ColumnKey_NAF), K(ColumnKey_ID), K(ColumnKey_STUDENT),
         K(ColumnKey_SITUATION), K(ColumnKey_ABSCENCES),
         K(ColumnKey_P1), K(ColumnKey_P2), K(ColumnKey_P3) >>,
      \* no Situação header
      << K(ColumnKey_ID), K(ColumnKey_STUDENT), K(ColumnKey_ABSCENCES),
         K(ColumnKey_P1), K(ColumnKey_P2), K(ColumnKey_P3),
         H(ColumnKey_SITUATION, "Status"), K(ColumnKey_NAF) >>,
      \* no NAF header
      << K(ColumnKey_ID), K(ColumnKey_STUDENT), K(ColumnKey_ABSCENCES),
         K(ColumnKey_P1), K(ColumnKey_P2), K(ColumnKey_P3),
         K(ColumnKey_SITUATION), H(ColumnKey_NAF, "NAF") >>,
      \* no Faltas header
      << K(ColumnKey_ID), K(ColumnKey_STUDENT),
         H(ColumnKey_ABSCENCES, "Ausencias"),
         K(ColumnKey_P1), K(ColumnKey_P2), K(ColumnKey_P3),
         K(ColumnKey_SITUATION), K(ColumnKey_NAF) >> }

\* Data rows, by field
Row(id, student, faltas, s1, s2, s3, sit, n) ==
    (ColumnKey_ID :> id) @@ (ColumnKey_STUDENT :> student) @@
    (ColumnKey_ABSCENCES :> faltas) @@
    (ColumnKey_P1 :> s1) @@ (ColumnKey_P2 :> s2) @@ (ColumnKey_P3 :> s3) @@
    (ColumnKey_SITUATION :> sit) @@ (ColumnKey_NAF :> n)
BlankRow == Row(Empty, Empty, Empty, Empty, Empty, Empty, Empty, Empty)
RowSamples ==
    { BlankRow,
      \* absences exactly a quarter of 60 lectures, average 5
      Row(Num(1), Text("Ana"), Num(15), Num(50), Num(50), Num(50),
          Empty, Empty),
      \* one absence more, stale results in the output columns
      Row(Num(2), Text("Bia"), Num(16), Num(100), Num(100), Num(100),
          Text(APROVADO), Num(0)),
      \* empty absences cell, stale results
      Row(Num(3), Text("Caio"), Empty, Num(60), Num(70), Num(70),
          Text(REPROVADO_POR_NOTA), Num(7)),
      Row(Num(4), Text("Davi"), Num(0), Num(40), Num(40), Num(40),
          Empty, Empty),
      Row(Num(5), Text("Eva"), Num(2), Num(70), Num(70), Num(70),
          Text(EXAME_FINAL), Num(3)),
      \* a score that is no number
      Row(Num(6), Text("Caio"), Num(0), Text("n/a"), Num(70), Num(70),
          Empty, Empty) }

\* The grid with header `layout` and data rows `data` (a sequence of
\* MaxStudents rows); the row below them is empty
Grid(layout, data) ==
    [r \in Rows |->
        [c \in Cols |->
            IF r = HEAD_ROW_INDEX THEN Text(layout[c].text)
            ELSE IF r = LastRow THEN Empty
            ELSE data[r - HEAD_ROW_INDEX][layout[c].field]]]

\* Values of the total-lectures cell, as sequences of characters
NoValue == [has |-> FALSE, chars |-> <<>>]
Value(chars) == [has |-> TRUE, chars |-> chars]
TotalCellValues ==
    { NoValue,
      Value(<<"T", "o", "t", "a", "l", " ", "d", "e", " ",
              "a", "u", "l", "a", "s", ":", " ", "6", "0">>),
      Value(<<"a", "u", "l", "a", "s", ":", " ", "8">>),
      Value(<<"1", "2">>),
      Value(<<"6", "0", " ", "a", "u", "l", "a", "s">>),
      Value(<<"a", "u", "l", "a", "s", ":", " ">>) }

----------------------------------------------------------------------------
(* Library calls used by main() *)

\* str.split(" ")[-1]: the characters after the last space
RECURSIVE LastToken(_)
LastToken(chars) ==
    IF chars = <<>> THEN <<>>
    ELSE IF chars[Len(chars)] = " " THEN <<>>
    ELSE Append(LastToken(SubSeq(chars, 1, Len(chars) - 1)), chars[Len(chars)])

Digits == {"0", "1", "2", "3", "4", "5", "6", "7", "8", "9"}
DigitValue(ch) ==
    CASE ch = "0" -> 0 [] ch = "1" -> 1 [] ch = "2" -> 2 [] ch = "3" -> 3
      [] ch = "4" -> 4 [] ch = "5" -> 5 [] ch = "6" -> 6 [] ch = "7" -> 7
      [] ch = "8" -> 8 [] ch = "9" -> 9

RECURSIVE DecimalValue(_)
DecimalValue(chars) ==
    IF chars = <<>> THEN 0
    ELSE 10 * DecimalValue(SubSeq(chars, 1, Len(chars) - 1))
         + DigitValue(chars[Len(chars)])

AllDigits(chars) ==
    Len(chars) > 0 /\ \A k \in 1 .. Len(chars) : chars[k] \in Digits

\* (mutant) a token that is no integer counted as 0 lectures
int_lenient(token) ==
    IF AllDigits(token) THEN [ok |-> TRUE, value |-> DecimalValue(token)]
    ELSE [ok |-> TRUE, value |-> 0]

\* int(token): [ok, value]; not ok is ValueError.  An optional sign, then
\* decimal digits.
int(token) ==
    IF AllDigits(token) THEN [ok |-> TRUE, value |-> DecimalValue(token)]
    ELSE IF Len(token) > 1 /\ token[1] \in {"+", "-"} /\ AllDigits(Tail(token))
    THEN [ok |-> TRUE,
          value |-> IF token[1] = "-" THEN -DecimalValue(Tail(token))
                    ELSE DecimalValue(Tail(token))]
    ELSE [ok |-> FALSE, value |-> 0]

IsBlankRow(grid, r) == \A c \in Cols : grid[r][c] = Empty

\* The rows below the header down to the last row that is not empty
DataRowCount(grid) ==
    LET filled == {r \in Rows : r > HEAD_ROW_INDEX /\ ~IsBlankRow(grid, r)} IN
    IF filled = {} THEN 0
    ELSE (CHOOSE r \in filled : \A q \in filled : q <= r) - HEAD_ROW_INDEX

\* empty2zero=True
empty2zero(v) == IF v = Empty THEN Num(0) ELSE v

\* worksheet.get_all_records(head, empty2zero=True): one dictionary per row
\* below the header row, keyed by the header texts
get_all_records(grid, head) ==
    LET keys == {grid[head][c].text : c \in Cols}
        colOf(key) == CHOOSE c \in Cols : grid[head][c].text = key
    IN [k \in 1 .. DataRowCount(grid) |->
           [key \in keys |-> empty2zero(grid[head + k][colOf(key)])]]

\* worksheet.find(query, in_row): the first cell of the row holding the
\* text, or None
NotFound == [found |-> FALSE, row |-> 0, col |-> 0]
find(grid, query, in_row) ==
    LET hits == {c \in Cols : grid[in_row][c] = Text(query)} IN
    IF hits = {} THEN NotFound
    ELSE [found |-> TRUE, row |-> in_row,
          col |-> CHOOSE c \in hits : \A d \in hits : c <= d]

\* worksheet.range(first_row, first_col, last_row, last_col): the Cell
\* objects of the rectangle, row by row
range(grid, first_row, first_col, last_row, last_col) ==
    LET w == last_col - first_col + 1
        n == (last_row - first_row + 1) * w
    IN [k \in 1 .. n |->
           LET r == first_row + ((k - 1) \div w)
               c == first_col + ((k - 1) % w)
           IN [row |-> r, col |-> c, value |-> grid[r][c]]]

\* worksheet.update_cells(cell_list): every listed cell gets the value of its
\* Cell object
update_cells(grid, cell_list) ==
    [r \in Rows |->
        [c \in Cols |->
            IF \E k \in 1 .. Len(cell_list) :
                   cell_list[k].row = r /\ cell_list[k].col = c
            THEN LET k == CHOOSE k \in 1 .. Len(cell_list) :
                              cell_list[k].row = r /\ cell_list[k].col = c
                 IN cell_list[k].value
            ELSE grid[r][c]]]

----------------------------------------------------------------------------
(* Spec: one run of main() *)

CompIdle ==
    /\ cpc = "idle"
    /\ abscences = 0 /\ p1 = 0 /\ p2 = 0 /\ p3 = 0 /\ lectures = 0
    /\ situation = "unset" /\ naf = 0

Init ==
    /\ pc = "open_by_url"
    /\ spreadsheet_id \in {"url", "key", "name", "unknown"}
    /\ a2 \in TotalCellValues
    /\ \E layout \in Layouts, data \in [1 .. MaxStudents -> RowSamples] :
          cells = Grid(layout, data)
    /\ sheet0 = cells
    /\ total_lectures = 0
    /\ student_records = <<>>
    /\ situation_cell = NotFound
    /\ nafs_cell = NotFound
    /\ situation_col = <<>>
    /\ nafs_col = <<>>
    /\ i = 0
    /\ errors = <<>>
    /\ exception = "none"
    /\ compute_calls = 0
    /\ update_calls = 0
    /\ CompIdle

\* the locals and history variables a step leaves alone
Keep(vs) == UNCHANGED <<vs, spreadsheet_id, a2, sheet0, compVars>>

\* return after logger.error(msg)
Abort(msg) ==
    /\ errors' = Append(errors, msg)
    /\ pc' = "aborted"
    /\ UNCHANGED exception

\* an exception nothing catches
Raise(exc) ==
    /\ exception' = exc
    /\ pc' = "crashed"
    /\ UNCHANGED errors

Goto(label) ==
    /\ pc' = label
    /\ UNCHANGED <<errors, exception>>

OpenByUrl ==
    /\ pc = "open_by_url"
    /\ IF spreadsheet_id = "url" THEN Goto("read_total")
       ELSE Goto("open_by_key")
    /\ Keep(<<cells, total_lectures, student_records, situation_cell,
              nafs_cell, situation_col, nafs_col, i, compute_calls,
              update_calls>>)

OpenByKey ==
    /\ pc = "open_by_key"
    /\ IF spreadsheet_id = "key" THEN Goto("read_total")
       ELSE Goto("open_by_name")
    /\ Keep(<<cells, total_lectures, student_records, situation_cell,
              nafs_cell, situation_col, nafs_col, i, compute_calls,
              update_calls>>)

OpenByName ==
    /\ pc = "open_by_name"
    /\ IF spreadsheet_id = "name" THEN Goto("read_total")
       ELSE Abort("Could not open the spreadsheet")
    /\ Keep(<<cells, total_lectures, student_records, situation_cell,
              nafs_cell, situation_col, nafs_col, i, compute_calls,
              update_calls>>)

ReadTotalLectures ==
    /\ pc = "read_total"
    /\ IF ~a2.has
       THEN Abort("Total lectures amount cell does not exist")
            /\ UNCHANGED total_lectures
       ELSE LET parsed == int(LastToken(a2.chars)) IN
            IF parsed.ok
            THEN total_lectures' = parsed.value /\ Goto("read_records")
            ELSE Raise("ValueError") /\ UNCHANGED total_lectures
    /\ Keep(<<cells, student_records, situation_cell, nafs_cell,
              situation_col, nafs_col, i, compute_calls, update_calls>>)

ReadRecords ==
    /\ pc = "read_records"
    /\ student_records' = get_all_records(cells, HEAD_ROW_INDEX)
    /\ Goto("find_situation")
    /\ Keep(<<cells, total_lectures, situation_cell, nafs_cell,
              situation_col, nafs_col, i, compute_calls, update_calls>>)

FindSituation ==
    /\ pc = "find_situation"
    /\ situation_cell' = find(cells, ColumnKey_SITUATION, HEAD_ROW_INDEX)
    /\ IF situation_cell'.found THEN Goto("find_naf")
       ELSE Abort("Could not find student situation column")
    /\ Keep(<<cells, total_lectures, student_records, nafs_cell,
              situation_col, nafs_col, i, compute_calls, update_calls>>)

\* (mutant) the error logged, the return forgotten
FindNaf_no_return ==
    /\ pc = "find_naf"
    /\ nafs_cell' = find(cells, ColumnKey_NAF, HEAD_ROW_INDEX)
    /\ IF nafs_cell'.found THEN Goto("read_ranges")
       ELSE /\ errors' = Append(errors, "Could not find student NAF column")
            /\ pc' = "read_ranges"
            /\ UNCHANGED exception
    /\ Keep(<<cells, total_lectures, student_records, situation_cell,
              situation_col, nafs_col, i, compute_calls, update_calls>>)

FindNaf ==
    /\ pc = "find_naf"
    /\ nafs_cell' = find(cells, ColumnKey_NAF, HEAD_ROW_INDEX)
    /\ IF nafs_cell'.found THEN Goto("read_ranges")
       ELSE Abort("Could not find student NAF column")
    /\ Keep(<<cells, total_lectures, student_records, situation_cell,
              situation_col, nafs_col, i, compute_calls, update_calls>>)

\* (mutant) the ranges start at the header row: the "+ 1" forgotten
ReadRanges_from_header ==
    /\ pc = "read_ranges"
    /\ situation_col' = range(cells, situation_cell.row, situation_cell.col,
                              situation_cell.row + Len(student_records),
                              situation_cell.col)
    /\ nafs_col' = range(cells, nafs_cell.row, nafs_cell.col,
                         nafs_cell.row + Len(student_records),
                         nafs_cell.col)
    /\ i' = 0
    /\ Goto("loop")
    /\ Keep(<<cells, total_lectures, student_records, situation_cell,
              nafs_cell, compute_calls, update_calls>>)

ReadRanges ==
    /\ pc = "read_ranges"
    /\ situation_col' = range(cells, situation_cell.row + 1, situation_cell.col,
                              situation_cell.row + Len(student_records) + 1,
                              situation_cell.col)
    /\ nafs_col' = range(cells, nafs_cell.row + 1, nafs_cell.col,
                         nafs_cell.row + Len(student_records) + 1,
                         nafs_cell.col)
    /\ i' = 0
    /\ Goto("loop")
    /\ Keep(<<cells, total_lectures, student_records, situation_cell,
              nafs_cell, compute_calls, update_calls>>)

InputKeys ==
    {ColumnKey_ID, ColumnKey_STUDENT, ColumnKey_ABSCENCES,
     ColumnKey_P1, ColumnKey_P2, ColumnKey_P3}

\* (mutant) every result stored in the first cell of the column
SetResult_first(col, idx, v) == [col EXCEPT ![1].value = v]

\* the result cells of the record at Python index idx get the pair
SetResult(col, idx, v) == [col EXCEPT ![idx + 1].value = v]

\* one iteration of the loop over enumerate(student_records)
LoopBody ==
    /\ pc = "loop"
    /\ i < Len(student_records)
    /\ LET record == student_records[i + 1] IN
       IF ~(InputKeys \subseteq DOMAIN record)
       THEN /\ Raise("KeyError")
            /\ UNCHANGED <<situation_col, nafs_col, i, compute_calls>>
       ELSE IF \E key \in {ColumnKey_ABSCENCES, ColumnKey_P1, ColumnKey_P2,
                           ColumnKey_P3} : record[key].kind # "num"
       THEN /\ Raise("TypeError")
            /\ compute_calls' = compute_calls + 1
            /\ UNCHANGED <<situation_col, nafs_col, i>>
       ELSE LET r == compute_student_situation(
                         record[ColumnKey_ABSCENCES].num,
                         record[ColumnKey_P1].num,
                         record[ColumnKey_P2].num,
                         record[ColumnKey_P3].num,
                         total_lectures)
            IN /\ situation_col' = SetResult(situation_col, i, Text(r[1]))
               /\ nafs_col' = SetResult(nafs_col, i, Num(r[2]))
               /\ compute_calls' = compute_calls + 1
               /\ i' = i + 1
               /\ Goto("loop")
    /\ Keep(<<cells, total_lectures, student_records, situation_cell,
              nafs_cell, update_calls>>)

WriteSituation ==
    /\ pc = "loop"
    /\ i = Len(student_records)
    /\ cells' = update_cells(cells, situation_col)
    /\ update_calls' = update_calls + 1
    /\ Goto("write_nafs")
    /\ Keep(<<total_lectures, student_records, situation_cell, nafs_cell,
              situation_col, nafs_col, i, compute_calls>>)

WriteNafs ==
    /\ pc = "write_nafs"
    /\ cells' = update_cells(cells, nafs_col)
    /\ update_calls' = update_calls + 1
    /\ Goto("done")
    /\ Keep(<<total_lectures, student_records, situation_cell, nafs_cell,
              situation_col, nafs_col, i, compute_calls>>)

Next ==
    \/ OpenByUrl
    \/ OpenByKey
    \/ OpenByName
    \/ ReadTotalLectures
    \/ ReadRecords
    \/ FindSituation
    \/ FindNaf
    \/ ReadRanges
    \/ LoopBody
    \/ WriteSituation
    \/ WriteNafs

Spec == Init /\ [][Next]_vars

----------------------------------------------------------------------------
(* Properties of a run of main(), checked under Spec *)

HeaderHas(key) == \E c \in Cols : sheet0[HEAD_ROW_INDEX][c] = Text(key)
ColumnOf(key) == CHOOSE c \in Cols : sheet0[HEAD_ROW_INDEX][c] = Text(key)
NoWrite == update_calls = 0 /\ cells = sheet0

\* a lookup of main() is about to fail: the spreadsheet is found neither by
\* URL nor by key nor by name, the total-lectures cell has no value, the
\* Situação or the NAF header is not in the header row
LookupFails ==
    \/ pc = "open_by_name" /\ spreadsheet_id # "name"
    \/ pc = "read_total" /\ ~a2.has
    \/ pc = "find_situation" /\ ~HeaderHas(ColumnKey_SITUATION)
    \/ pc = "find_naf" /\ ~HeaderHas(ColumnKey_NAF)

ResourceMissing ==
    \/ spreadsheet_id = "unknown"
    \/ ~a2.has
    \/ ~HeaderHas(ColumnKey_SITUATION)
    \/ ~HeaderHas(ColumnKey_NAF)

\* C6 (resource not found is terminal, without partial writes): in a run
\* where the spreadsheet cannot be opened, the total-lectures cell has no
\* value or an output header is missing, update_cells is never called and no
\* cell changes; the step whose lookup fails logs one error and ends the run,
\* and nothing happens after it.
C6_NotFoundTerminal ==
    /\ [](ResourceMissing => NoWrite)
    /\ [][/\ LookupFails =>
                /\ pc' = "aborted"
                /\ Len(errors') = Len(errors) + 1
                /\ exception' = "none"
                /\ update_calls' = 0 /\ cells' = sheet0
          /\ pc # "aborted"]_vars

C6_Witness ==
    /\ pc = "aborted"
    /\ errors = <<"Could not find student NAF column">>
    /\ Len(student_records) = MaxStudents
    /\ NoWrite

\* the text after the last space of the total-lectures value
LastField(chars) ==
    LET spaces == {k \in 1 .. Len(chars) : chars[k] = " "}
        from == IF spaces = {} THEN 1
                ELSE 1 + CHOOSE k \in spaces : \A q \in spaces : q <= k
    IN SubSeq(chars, from, Len(chars))
IsIntegerLiteral(tok) ==
    LET body == IF Len(tok) > 0 /\ tok[1] \in {"+", "-"} THEN Tail(tok) ELSE tok
    IN Len(body) > 0 /\ \A k \in 1 .. Len(body) : body[k] \in Digits
Malformed == a2.has /\ ~IsIntegerLiteral(LastField(a2.chars))

\* C7 (malformed total lectures aborts early): when the last
\* space-separated token of the total-lectures value is no integer, the run
\* never gets past the reading of the total: it ends with the ValueError,
\* compute_student_situation is never called and nothing is written.
C7_MalformedAborts ==
    Malformed =>
        /\ pc \in {"open_by_url", "open_by_key", "open_by_name", "read_total",
                   "aborted", "crashed"}
        /\ (pc = "crashed" => exception = "ValueError")
        /\ (pc = "aborted" => spreadsheet_id = "unknown")
        /\ compute_calls = 0
        /\ NoWrite

C7_Witness ==
    /\ Malformed
    /\ pc = "crashed" /\ exception = "ValueError"
    /\ ~IsBlankRow(sheet0, HEAD_ROW_INDEX + 1)
    /\ compute_calls = 0

\* the pair compute_student_situation returns for the record at index k
Expected(k) ==
    LET record == student_records[k] IN
    compute_student_situation(record[ColumnKey_ABSCENCES].num,
                              record[ColumnKey_P1].num,
                              record[ColumnKey_P2].num,
                              record[ColumnKey_P3].num,
                              total_lectures)

\* the record at index k is the k-th row below the header row, an empty
\* cell read as 0
RecordOfRow(k) ==
    \A c \in Cols :
        LET v == sheet0[HEAD_ROW_INDEX + k][c] IN
        student_records[k][sheet0[HEAD_ROW_INDEX][c].text]
            = IF v = Empty THEN Num(0) ELSE v

\* C8 (positional alignment): once the Situação column is written, and once
\* the NAF column is written, the cell of the k-th row below the header row
\* holds what compute_student_situation returns for the k-th record and the
\* shared total_lectures, and the k-th record is that row.
C8_Alignment ==
    \A k \in 1 .. Len(student_records) :
        /\ RecordOfRow(k)
        /\ pc \in {"write_nafs", "done"} =>
              cells[HEAD_ROW_INDEX + k][ColumnOf(ColumnKey_SITUATION)]
                  = Text(Expected(k)[1])
        /\ pc = "done" =>
              cells[HEAD_ROW_INDEX + k][ColumnOf(ColumnKey_NAF)]
                  = Num(Expected(k)[2])

C8_Witness ==
    /\ pc = "done"
    /\ Len(student_records) >= 2
    /\ Expected(1) = <<REPROVADO_POR_FALTA, 0>>
    /\ Expected(2) = <<EXAME_FINAL, 4>>
    /\ sheet0[HEAD_ROW_INDEX + 1][ColumnOf(ColumnKey_SITUATION)] = Text(APROVADO)

\* the Situação and NAF cells of the student rows
IsResultCell(r, c) ==
    /\ r \in (HEAD_ROW_INDEX + 1) .. (HEAD_ROW_INDEX + DataRowCount(sheet0))
    /\ sheet0[HEAD_ROW_INDEX][c] \in
           {Text(ColumnKey_SITUATION), Text(ColumnKey_NAF)}

\* C9 (frame of the write-back): a run changes no cell but the Situação and
\* NAF cells of the student rows; the two ranges span one row more than
\* there are records, and the cell of that row keeps the value it had.
C9_Frame ==
    /\ \A r \in Rows, c \in Cols :
           cells[r][c] # sheet0[r][c] => IsResultCell(r, c)
    /\ pc \in {"loop", "write_nafs", "done"} =>
           \A col \in {situation_col, nafs_col} :
               LET n == Len(student_records) IN
               /\ Len(col) = n + 1
               /\ col[n + 1].row = HEAD_ROW_INDEX + n + 1
               /\ col[n + 1].value = sheet0[col[n + 1].row][col[n + 1].col]
               /\ cells[col[n + 1].row][col[n + 1].col] = col[n + 1].value

C9_Witness ==
    /\ pc = "done"
    /\ Len(student_records) >= 1
    /\ Len(situation_col) = Len(student_records) + 1
    /\ \E r \in Rows, c \in Cols : cells[r][c] # sheet0[r][c]

----------------------------------------------------------------------------
(* Properties of compute_student_situation, checked under SpecCompute *)

Returned == cpc = "returned"
Sum == p1 + p2 + p3
\* the absence check triggers: abscences > lectures / 4 under exact division
Triggers == 4 * abscences > lectures

\* C1 (totality): for absences >= 0, scores in 0..100 and total_lectures > 0
\* the call returns one of the four situations and a NAF that is a
\* non-negative integer, equal to 0 unless the situation is EXAME_FINAL.
C1_Totality ==
    (Returned /\ lectures > 0) =>
        /\ situation \in StudentSituation
        /\ naf \in Nat
        /\ (situation # EXAME_FINAL => naf = 0)

C1_Witness ==
    /\ Returned /\ lectures > 0
    /\ situation = APROVADO /\ naf = 0

\* C2 (absence precedence): for total_lectures >= 0, if
\* 4 * abscences > total_lectures the result is (REPROVADO_POR_FALTA, 0),
\* whatever the scores.
C2_AbsencePrecedence ==
    (Returned /\ Triggers) => (situation = REPROVADO_POR_FALTA /\ naf = 0)

C2_Witness ==
    /\ Returned /\ Triggers
    /\ p1 = 100 /\ p2 = 100 /\ p3 = 100
    /\ situation = REPROVADO_POR_FALTA

\* C3 (absence strict boundary): if abscences <= total_lectures / 4 the
\* situation is not REPROVADO_POR_FALTA and the result is the one the same
\* scores get with no absence at all.
C3_StrictBoundary ==
    (Returned /\ ~Triggers) =>
        /\ situation # REPROVADO_POR_FALTA
        /\ <<situation, naf>> =
               compute_student_situation(0, p1, p2, p3, lectures)

C3_Witness ==
    /\ Returned
    /\ abscences > 0 /\ 4 * abscences = lectures
    /\ situation = APROVADO

\* C4 (half-open boundaries): when the absence check does not trigger the
\* situation is REPROVADO_POR_NOTA iff the sum of the scores is below 150,
\* EXAME_FINAL iff it is in 150..209 and APROVADO iff it is at least 210.
C4_Classification ==
    (Returned /\ ~Triggers) =>
        /\ (situation = REPROVADO_POR_NOTA <=> Sum < 150)
        /\ (situation = EXAME_FINAL <=> (150 <= Sum /\ Sum < 210))
        /\ (situation = APROVADO <=> Sum >= 210)

C4_Witness ==
    /\ Returned /\ ~Triggers
    /\ p1 = 50 /\ p2 = 50 /\ p3 = 50
    /\ situation = EXAME_FINAL

\* C5 (ceiling): whenever the situation is EXAME_FINAL the NAF is the least
\* integer n with 30 * n >= 300 - (p1 + p2 + p3).
C5_Ceiling ==
    (Returned /\ situation = EXAME_FINAL) =>
        /\ 30 * naf >= 300 - Sum
        /\ 30 * (naf - 1) < 300 - Sum

C5_Witness ==
    /\ Returned /\ situation = EXAME_FINAL
    /\ p1 = 60 /\ p2 = 70 /\ p3 = 70
    /\ naf = 4

Rank(s) ==
    CASE s = REPROVADO_POR_NOTA -> 0
      [] s = EXAME_FINAL -> 1
      [] s = APROVADO -> 2
      [] OTHER -> -1

\* the triples the returned result is compared with: every sum of
\* 0 .. 3 * MaxScore occurs
RegradeTriples ==
    {<<q1, q2, q3>> : q1 \in Scores, q2 \in {0, MaxScore}, q3 \in {0, MaxScore}}

\* C10 (monotonicity): with the absence check not triggering, scores with a
\* sum at least as high never get a worse situation in the order
\* REPROVADO_POR_NOTA < EXAME_FINAL < APROVADO, get a NAF at most as high when
\* both situations are EXAME_FINAL, and every permutation of the scores gets
\* the same pair.
C10_Monotone ==
    (Returned /\ ~Triggers) =>
        /\ \A q \in RegradeTriples :
              LET r == compute_student_situation(abscences, q[1], q[2], q[3],
                                                 lectures) IN
              (q[1] + q[2] + q[3] >= Sum) =>
                  /\ Rank(r[1]) >= Rank(situation)
                  /\ (r[1] = EXAME_FINAL /\ situation = EXAME_FINAL)
                         => r[2] <= naf
        /\ \A q \in {<<p1, p3, p2>>, <<p2, p1, p3>>, <<p2, p3, p1>>,
                     <<p3, p1, p2>>, <<p3, p2, p1>>} :
              compute_student_situation(abscences, q[1], q[2], q[3], lectures)
                  = <<situation, naf>>

C10_Witness ==
    /\ Returned /\ ~Triggers
    /\ situation = EXAME_FINAL /\ naf = 5
    /\ p1 # p2 /\ p2 # p3 /\ p1 # p3

====
